---- MODULE Spec2Model ----
(***************************************************************************)
(* Concurrent biometric pipeline with a local hash-linked ledger           *)
(* (TP1_desarrollo/main.py) and its independent ledger verifier            *)
(* (TP1_desarrollo/verificar_cadena.py).                                   *)
(*                                                                         *)
(* Conventions                                                             *)
(*  - a Python str is a TLA+ string, built with \o and ToString;           *)
(*  - a Python float that main.py rounds to two decimals is the integer    *)
(*    number of hundredths (10000 is 100.0);                               *)
(*  - a Python dict is a sequence of [k, v] records in insertion order;    *)
(*  - the wall clock is a number of seconds, datetime.now() truncated to   *)
(*    the second as strftime("%Y-%m-%dT%H:%M:%S") does.                    *)
(***************************************************************************)
EXTENDS Integers, Sequences, FiniteSets, TLC

VARIABLES
    gen_inputs,       \* environment: the inputs a sample of this run may draw
    start_method,     \* environment: multiprocessing start method of the platform
    clock,            \* wall clock of the generator process, in seconds
    gen_pc,           \* BiometricGenerator.run: "sample" | "send" | "close" | "done"
    gen_i,            \* BiometricGenerator.run: loop index i
    gen_j,            \* BiometricGenerator.run: index of the pipe being sent to
    sample,           \* BiometricGenerator.run: the current sample
    gen_error,        \* BiometricGenerator.run: the except branch (line 75) was taken
    emitted,          \* history: samples generated so far, in order
    pipes,            \* per channel: samples sent and not yet received
    pipe_closed,      \* per channel: the generator closed its end
    an_pc,            \* per channel, BiometricAnalyzer.run: "recv" | "done"
    an_exit,          \* per channel: how the analyzer left its loop
    samples_received, \* per channel, BiometricAnalyzer.run
    window_data,      \* per channel, BiometricAnalyzer.window_data
    received,         \* history: per channel, the samples received, in order
    result_queues,    \* per channel: results put and not yet got
    v_pc,             \* BlockchainVerifier.run: "poll" | "done"
    v_q,              \* BlockchainVerifier.run: index of the queue being polled
    blocks_created,   \* BlockchainVerifier.run
    pending_results,  \* BlockchainVerifier.pending_results
    blockchain,       \* BlockchainVerifier.blockchain (main.py)
    file,             \* blockchain.json
    vf_pc,            \* verificar_cadena.main: "idle" | "load" | "verify" | "scan" |
                      \* "report" | "exit_code" | "exit"
    vf_blockchain,    \* verificar_cadena.BlockchainVerifier.blockchain
    vf_corrupted,     \* verificar_cadena.BlockchainVerifier.corrupted_blocks
    vf_i,             \* verify_blockchain: index of the next block
    vf_expected,      \* verify_blockchain: expected_prev_hash
    vf_is_valid,      \* verify_blockchain: is_valid
    vf_valid_log,     \* history: block_valid of each block scanned
    vf_exit,          \* exit status of verificar_cadena.py, -1 while running
    call              \* a single call of a function: its arguments and result

pipeline_vars ==
    <<gen_inputs, start_method, clock, gen_pc, gen_i, gen_j, sample, gen_error, emitted,
      pipes, pipe_closed, an_pc, an_exit, samples_received, window_data,
      received, result_queues, v_pc, v_q, blocks_created, pending_results,
      blockchain, file>>

verifier_vars ==
    <<vf_pc, vf_blockchain, vf_corrupted, vf_i, vf_expected, vf_is_valid,
      vf_valid_log, vf_exit>>

vars == <<pipeline_vars, verifier_vars, call>>

(***************************************************************************)
(* Bounds of the model.                                                    *)
(***************************************************************************)
\* Number of samples of a run: main.py fixes 60 in three places.
MaxSamples == 2
\* Longest ledger handed to the independent verifier.
MaxBlocks == 4

(***************************************************************************)
(* Program constants.                                                      *)
(***************************************************************************)
\* main.py:29 self.sample_count = 60, scaled to the bound
sample_count == MaxSamples
\* main.py:172 while samples_received < 60, scaled to the bound
analyzer_count == MaxSamples
\* main.py:337 expected_blocks = 60, scaled to the bound
expected_blocks == MaxSamples
\* main.py:90 self.window_duration = 30
window_duration == 30

\* main.py:402-406: the analyzers, in the order main() creates them; pipe i
\* and queue i belong to Channels[i].
Channels == <<"frecuencia", "presion", "oxigeno">>
NCh == Len(Channels)
CIdx == 1..NCh

(***************************************************************************)
(* Python values.                                                          *)
(***************************************************************************)
Pad2(n) == IF n < 10 THEN "0" \o ToString(n) ELSE ToString(n)

\* datetime.strftime("%Y-%m-%dT%H:%M:%S") of the instant t seconds into the day
strftime(t) ==
    "2025-01-01T" \o Pad2(t \div 3600) \o ":" \o Pad2((t \div 60) % 60)
                  \o ":" \o Pad2(t % 60)

\* The day times the bounded runs reach, and their timestamps.
ClockRange == 0..(MaxSamples * (window_duration + 1))
Timestamps == [t \in ClockRange |-> strftime(t)]

\* datetime.strptime(s, "%Y-%m-%dT%H:%M:%S"), as seconds
strptime(s) == CHOOSE t \in ClockRange : Timestamps[t] = s

\* repr of a float with at most two decimals: "100.0", "123.3", "0.05"
float_repr(h) ==
    ToString(h \div 100) \o "." \o
        (IF h % 10 = 0 THEN ToString((h % 100) \div 10) ELSE Pad2(h % 100))

\* A writer that drops the fraction of a whole number: 100 for 100.0.
json_number_whole(h) ==
    [int |-> h \div 100,
     frac |-> IF h % 100 = 0 THEN <<>>
              ELSE IF h % 10 = 0 THEN <<(h % 100) \div 10>>
              ELSE <<(h % 100) \div 10, h % 10>>]

\* The decimal digits of float_repr(h), as json.dump writes them: the integer
\* part and the fraction digits.
json_number(h) ==
    [int |-> h \div 100,
     frac |-> IF h % 10 = 0 THEN <<(h % 100) \div 10>>
              ELSE <<(h % 100) \div 10, h % 10>>]

\* float(text) of a JSON number written by json_number
json_parse_number(n) ==
    n.int * 100 + (IF Len(n.frac) = 1 THEN n.frac[1] * 10
                   ELSE n.frac[1] * 10 + n.frac[2])

\* The element of a one-element set: { e(x) : x \in {v} } computes v once
\* and e with x bound to its value.
Only(S) == CHOOSE x \in S : TRUE

\* dict operations, insertion-ordered
DictHas(d, k) == \E i \in 1..Len(d) : d[i].k = k
DictGet(d, k) == d[CHOOSE i \in 1..Len(d) : d[i].k = k].v
DictSet(d, k, v) ==
    IF DictHas(d, k)
    THEN [i \in 1..Len(d) |-> IF d[i].k = k THEN [k |-> k, v |-> v] ELSE d[i]]
    ELSE Append(d, [k |-> k, v |-> v])
DictKeys(d) == [i \in 1..Len(d) |-> d[i].k]
\* A del that removes nothing.
DictDel_kept(d, k) == d

\* del d[k]
DictDel(d, k) ==
    LET keep == {i \in 1..Len(d) : d[i].k # k}
        nth(n) == CHOOSE i \in keep : Cardinality({j \in keep : j < i}) = n - 1
    IN [n \in 1..Cardinality(keep) |-> d[nth(n)]]

\* str(datos[tipo]): "{'media': 100.0, 'desv': 0.0}"
str_stats(v) ==
    "{'media': " \o float_repr(v.media) \o ", 'desv': " \o float_repr(v.desv) \o "}"

RECURSIVE str_items(_, _)
str_items(d, i) ==
    IF i > Len(d) THEN ""
    ELSE (IF i > 1 THEN ", " ELSE "") \o "'" \o d[i].k \o "': "
         \o str_stats(d[i].v) \o str_items(d, i + 1)

\* str(datos) of a dict of {media, desv} dicts, keys in insertion order
str_datos(d) == "{" \o str_items(d, 1) \o "}"

\* hashlib.sha256(s.encode()).hexdigest(): a collision-free digest, kept
\* symbolic
sha256(s) == "sha256(" \o s \o ")"

(***************************************************************************)
(* BiometricAnalyzer: the window and its statistics.                       *)
(***************************************************************************)
RECURSIVE SumSeq(_, _)
SumSeq(s, i) == IF i > Len(s) THEN 0 ELSE s[i] + SumSeq(s, i + 1)

\* largest r in lo..hi with r * r <= n, for <<n, lo, hi>>
IsqrtFrom[a \in Nat \X Nat \X Nat] ==
    IF a[2] >= a[3] THEN a[2]
    ELSE LET mid == (a[2] + a[3] + 1) \div 2
         IN IF mid * mid <= a[1] THEN IsqrtFrom[<<a[1], mid, a[3]>>]
            ELSE IsqrtFrom[<<a[1], a[2], mid - 1>>]
Isqrt(n) == IsqrtFrom[<<n, 0, 46340>>]

\* round(num / den, 2) in hundredths: the nearest, a tie to the even one
round2(num, den) ==
    Only({IF 2 * r > den \/ (2 * r = den /\ q % 2 = 1) THEN q + 1 ELSE q :
            q \in {(100 * num) \div den}, r \in {(100 * num) % den}})

\* round(sqrt(num / den), 2) in hundredths
round2_sqrt(num, den) ==
    Only({IF (f * f + f) * den + ((den + 3) \div 4) <= 10000 * num
          THEN f + 1 ELSE f : f \in {Isqrt((10000 * num) \div den)}})

\* extract_signal_value: the float of the channel's reading
extract_signal_value(signal_type, s) ==
    IF signal_type = "frecuencia" THEN s.frecuencia
    ELSE IF signal_type = "presion" THEN s.presion[1]
    ELSE s.oxigeno

RECURSIVE popleft_stale_eager(_, _)
\* A window that drops the entry that is exactly window_duration old.
popleft_stale_eager(w, current_time) ==
    IF w = <<>> THEN w
    ELSE IF current_time - w[1].ts >= window_duration
         THEN popleft_stale_eager(Tail(w), current_time)
         ELSE w

RECURSIVE popleft_stale(_, _)
\* the loop of lines 127-132: drop entries from the front while they are
\* more than window_duration older than current_time
popleft_stale(w, current_time) ==
    IF w = <<>> THEN w
    ELSE IF current_time - w[1].ts > window_duration
         THEN popleft_stale(Tail(w), current_time)
         ELSE w

update_window(signal_type, w, s) ==
    Only({popleft_stale(Append(w, [ts |-> timestamp, value |-> value]), timestamp) :
            timestamp \in {strptime(s.timestamp)},
            value \in {extract_signal_value(signal_type, s)}})

\* A deviation of the whole population: the divisor n.
mean_and_std_population(n, total, squares) ==
    <<round2(total, n),
      IF n > 1 THEN round2_sqrt(n * squares - total * total, n * n) ELSE 0>>

\* lines 148-155 and the two round(_, 2) of lines 188-189, from n, the sum
\* of the values and the sum of their squares: <<media, desv>> in hundredths
mean_and_std(n, total, squares) ==
    <<round2(total, n),
      IF n > 1 THEN round2_sqrt(n * squares - total * total, n * (n - 1)) ELSE 0>>

\* calculate_statistics, rounded as the analyzer reports it
calculate_statistics(w) ==
    IF w = <<>> THEN <<0, 0>>
    ELSE Only({mean_and_std(Len(values), total, squares) :
                 values \in {[i \in 1..Len(w) |-> w[i].value]},
                 total \in {SumSeq([i \in 1..Len(w) |-> w[i].value], 1)},
                 squares \in {SumSeq([i \in 1..Len(w) |-> w[i].value * w[i].value], 1)}})

(***************************************************************************)
(* BlockchainVerifier of main.py: the ledger builder.                      *)
(***************************************************************************)
\* Python's None
None == [py_none |-> TRUE]
IsNone(x) == "py_none" \in DOMAIN x

\* dict.get(key, default) of a sample
SampleGet(s, key, default) == IF key \in DOMAIN s THEN s[key] ELSE default

\* Thresholds that take an oxygen of exactly 100 for an alert.
thresholds_oxygen_open(frecuencia, oxigeno, presion_sistolica) ==
    \/ frecuencia >= 200
    \/ ~(90 <= oxigeno /\ oxigeno < 100)
    \/ presion_sistolica >= 200

\* lines 247-257: the thresholds on the original values
thresholds(frecuencia, oxigeno, presion_sistolica) ==
    \/ frecuencia >= 200
    \/ ~(90 <= oxigeno /\ oxigeno <= 100)
    \/ presion_sistolica >= 200

\* A check of the rolling means instead of the original values.
is_valid_data_on_means(timestamp, results) ==
    thresholds(IF DictHas(results, "frecuencia")
               THEN DictGet(results, "frecuencia").media \div 100 ELSE 0,
               IF DictHas(results, "oxigeno")
               THEN DictGet(results, "oxigeno").media \div 100 ELSE 0,
               IF DictHas(results, "presion")
               THEN DictGet(results, "presion").media \div 100 ELSE 0)

\* is_valid_data: TRUE when there is an alert. results is the tick's dict
\* tipo -> {media, desv, original_data}.
is_valid_data(timestamp, results) ==
    LET having == {i \in 1..Len(results) : "original_data" \in DOMAIN results[i].v}
        original_data ==
            IF having = {} THEN None
            ELSE results[CHOOSE i \in having : \A j \in having : i <= j].v.original_data
    IN IF IsNone(original_data) \/ DOMAIN original_data = {} THEN TRUE
       ELSE LET frecuencia == SampleGet(original_data, "frecuencia", 0)
                oxigeno == SampleGet(original_data, "oxigeno", 0)
                presion == SampleGet(original_data, "presion", <<0, 0>>)
                presion_sistolica == IF Len(presion) >= 1 THEN presion[1] ELSE 0
            IN thresholds(frecuencia, oxigeno, presion_sistolica)

\* A builder that leaves prev_hash out of the hash.
calculate_hash_unlinked(block_data) ==
    sha256(str_datos(block_data.datos) \o block_data.timestamp)

\* calculate_hash (main.py): sha256(prev_hash + str(datos) + timestamp)
calculate_hash(block_data) ==
    LET prev_hash == IF "prev_hash" \in DOMAIN block_data
                     THEN block_data.prev_hash ELSE ""
        datos_str == str_datos(block_data.datos)
        timestamp == block_data.timestamp
    IN sha256(prev_hash \o datos_str \o timestamp)

\* A builder that forgets the link to the last block.
prev_hash_of_unlinked(chain) == ""

\* lines 291-293: the hash of the last block, "" for the first block
prev_hash_of(chain) == IF chain # <<>> THEN chain[Len(chain)].hash ELSE ""

\* lines 299-304: the statistics only, in the order of results
clean_results(results) ==
    [i \in 1..Len(results) |->
        [k |-> results[i].k,
         v |-> [media |-> results[i].v.media, desv |-> results[i].v.desv]]]

\* create_block
create_block(chain, timestamp, results) ==
    Only({[timestamp |-> block.timestamp, datos |-> block.datos,
           alerta |-> block.alerta, prev_hash |-> block.prev_hash,
           hash |-> calculate_hash(block)] :
            block \in {[timestamp |-> timestamp,
                        datos |-> clean_results(results),
                        alerta |-> is_valid_data(timestamp, results),
                        prev_hash |-> prev_hash_of(chain)]}})

(***************************************************************************)
(* blockchain.json: JSON text, as the values json.dump writes.             *)
(***************************************************************************)
JString(s) == [t |-> "string", s |-> s]
JBool(b) == [t |-> "bool", b |-> b]
JNumber(h) == [t |-> "number", n |-> json_number(h)]
JObject(members) == [t |-> "object", members |-> members]

json_stats(v) ==
    JObject(<<[k |-> "media", v |-> JNumber(v.media)],
              [k |-> "desv", v |-> JNumber(v.desv)]>>)

json_block(b) ==
    JObject(<<[k |-> "timestamp", v |-> JString(b.timestamp)],
              [k |-> "datos",
               v |-> JObject([i \in 1..Len(b.datos) |->
                                [k |-> b.datos[i].k, v |-> json_stats(b.datos[i].v)]])],
              [k |-> "alerta", v |-> JBool(b.alerta)],
              [k |-> "prev_hash", v |-> JString(b.prev_hash)],
              [k |-> "hash", v |-> JString(b.hash)]>>)

\* json.dump(self.blockchain, f): the whole list
json_dump(chain) ==
    [readable |-> TRUE, blocks |-> [i \in 1..Len(chain) |-> json_block(chain[i])]]

\* no blockchain.json, or one that is not JSON
NoFile == [readable |-> FALSE, blocks |-> <<>>]

(***************************************************************************)
(* verificar_cadena.py: the values json.load builds, and the checks.       *)
(***************************************************************************)
PyStr(s) == [t |-> "str", s |-> s]
PyBool(b) == [t |-> "bool", b |-> b]
PyFloat(h) == [t |-> "float", h |-> h]
PyInt(n) == [t |-> "int", n |-> n]
PyDict(items) == [t |-> "dict", items |-> items]

RECURSIVE json_loads(_)
\* the Python value of a JSON value; a number without a fraction is an int
json_loads(j) ==
    IF j.t = "string" THEN PyStr(j.s)
    ELSE IF j.t = "bool" THEN PyBool(j.b)
    ELSE IF j.t = "number"
         THEN IF j.n.frac = <<>> THEN PyInt(j.n.int)
              ELSE PyFloat(json_parse_number(j.n))
    ELSE PyDict([i \in 1..Len(j.members) |->
                    [k |-> j.members[i].k, v |-> json_loads(j.members[i].v)]])

\* json.load(f) of a readable blockchain.json
json_load(f) == [i \in 1..Len(f.blocks) |-> json_loads(f.blocks[i])]

RECURSIVE py_repr(_)
RECURSIVE py_repr_items(_, _)
\* repr(v)
py_repr(v) ==
    IF v.t = "str" THEN "'" \o v.s \o "'"
    ELSE IF v.t = "bool" THEN (IF v.b THEN "True" ELSE "False")
    ELSE IF v.t = "float" THEN float_repr(v.h)
    ELSE IF v.t = "int" THEN ToString(v.n)
    ELSE "{" \o py_repr_items(v.items, 1) \o "}"
py_repr_items(d, i) ==
    IF i > Len(d) THEN ""
    ELSE (IF i > 1 THEN ", " ELSE "") \o "'" \o d[i].k \o "': "
         \o py_repr(d[i].v) \o py_repr_items(d, i + 1)

\* str(v): a str is itself, anything else its repr
py_str(v) == IF v.t = "str" THEN v.s ELSE py_repr(v)

\* block.get(key, default)
BlockGet(block, key, default) ==
    IF DictHas(block.items, key) THEN DictGet(block.items, key) ELSE default

\* calculate_hash (verificar_cadena.py)
V_calculate_hash(block) ==
    LET prev_hash == BlockGet(block, "prev_hash", PyStr(""))
        datos_str == py_str(DictGet(block.items, "datos"))
        timestamp == DictGet(block.items, "timestamp")
    IN sha256(prev_hash.s \o datos_str \o timestamp.s)

required_fields == <<"timestamp", "datos", "alerta", "prev_hash", "hash">>
required_data_fields == <<"frecuencia", "presion", "oxigeno">>

\* SelectSeq with the element's value deciding
RECURSIVE Collect(_, _, _)
Collect(keys, i, errs) ==
    IF i > Len(keys) THEN <<>>
    ELSE (IF errs[keys[i]] = "" THEN <<>> ELSE <<errs[keys[i]]>>)
         \o Collect(keys, i + 1, errs)

\* lines 86-88: one error per missing field
missing_field_errors(block) ==
    Collect(required_fields, 1,
            [f \in {required_fields[i] : i \in 1..Len(required_fields)} |->
                IF ~DictHas(block.items, f) THEN "missing " \o f ELSE ""])

\* lines 105-116: the structure of datos
datos_errors(block) ==
    LET datos == DictGet(block.items, "datos")
        has(f) == datos.t = "dict" /\ DictHas(datos.items, f)
    IN Collect(required_data_fields, 1,
               [f \in {required_data_fields[i] : i \in 1..Len(required_data_fields)} |->
                  IF ~has(f) THEN "datos missing " \o f
                  ELSE IF DictGet(datos.items, f).t # "dict"
                       THEN "datos not a dict " \o f
                  ELSE IF ~DictHas(DictGet(datos.items, f).items, "media")
                          \/ ~DictHas(DictGet(datos.items, f).items, "desv")
                       THEN "datos subfields " \o f
                  ELSE ""])

\* verify_block: [valid, errors]
verify_block(index, block, expected_prev_hash) ==
    LET missing == missing_field_errors(block)
    IN IF missing # <<>> THEN [valid |-> FALSE, errors |-> missing]
       ELSE LET link == IF DictGet(block.items, "prev_hash") # expected_prev_hash
                        THEN <<"prev_hash">> ELSE <<>>
                digest == IF DictGet(block.items, "hash") # PyStr(V_calculate_hash(block))
                          THEN <<"hash">> ELSE <<>>
                errors == link \o digest \o datos_errors(block)
            IN [valid |-> Len(errors) = 0, errors |-> errors]

\* lines 134-135: the state of the loop of verify_blockchain before the
\* first block
scan_start ==
    [is_valid |-> TRUE, expected_prev_hash |-> PyStr(""), corrupted |-> <<>>,
     valid_log |-> <<>>]

\* lines 137-152: one block of the loop; index counts from 0
scan_block(index, block, scan) ==
    Only({IF checked.valid
          THEN [scan EXCEPT !.expected_prev_hash = DictGet(block.items, "hash"),
                            !.valid_log = Append(@, TRUE)]
          ELSE [scan EXCEPT !.corrupted =
                                Append(@, [index |-> index,
                                           hash |-> BlockGet(block, "hash", PyStr("N/A")),
                                           errors |-> checked.errors]),
                            !.is_valid = FALSE,
                            !.valid_log = Append(@, FALSE)] :
            checked \in {verify_block(index, block, scan.expected_prev_hash)}})

\* the loop over the n first blocks
RECURSIVE scan_blocks(_, _)
scan_blocks(chain, n) ==
    IF n = 0 THEN scan_start
    ELSE scan_block(n - 1, chain[n], scan_blocks(chain, n - 1))

\* verify_blockchain: the verdict and the corrupted blocks
verify_blockchain(chain) ==
    IF chain = <<>> THEN [scan_start EXCEPT !.is_valid = FALSE]
    ELSE scan_blocks(chain, Len(chain))

(***************************************************************************)
(* The pipeline: generator, three analyzers, ledger builder.               *)
(***************************************************************************)
\* What the environment decides for one sample: the values generate_sample
\* draws (frecuencia in 60..180, presion in 110..180 and 70..110, oxigeno in
\* 90..100: here the two ends of the ranges) and the seconds since the
\* previous sample (time.sleep(1) returns after at least one second; 31 is a
\* stalled generator, longer than the window).
GenInputs ==
    {[delay |-> 1,
      values |-> [frecuencia |-> 60, presion |-> <<110, 70>>, oxigeno |-> 90]],
     [delay |-> 31,
      values |-> [frecuencia |-> 180, presion |-> <<180, 110>>, oxigeno |-> 100]]}

\* generate_sample
generate_sample(now, values) ==
    [timestamp |-> strftime(now),
     frecuencia |-> values.frecuencia,
     presion |-> values.presion,
     oxigeno |-> values.oxigeno]

NoSample == [timestamp |-> ""]

ProcessesStart ==
    /\ clock = 0
    /\ gen_pc = IF sample_count > 0 THEN "sample" ELSE "close"
    /\ gen_i = 0
    /\ gen_j = 1
    /\ sample = NoSample
    /\ gen_error = FALSE
    /\ emitted = <<>>
    /\ pipes = [c \in CIdx |-> <<>>]
    /\ pipe_closed = [c \in CIdx |-> FALSE]
    /\ an_pc = [c \in CIdx |-> IF analyzer_count > 0 THEN "recv" ELSE "done"]
    /\ an_exit = [c \in CIdx |-> IF analyzer_count > 0 THEN "running" ELSE "count"]
    /\ samples_received = [c \in CIdx |-> 0]
    /\ window_data = [c \in CIdx |-> <<>>]
    /\ received = [c \in CIdx |-> <<>>]
    /\ result_queues = [c \in CIdx |-> <<>>]
    /\ v_pc = IF expected_blocks > 0 THEN "poll" ELSE "done"
    /\ v_q = 1
    /\ blocks_created = 0
    /\ pending_results = <<>>
    /\ blockchain = <<>>

PipelineStart == ProcessesStart /\ file = NoFile

\* Any sample may draw any input. Without a failure no analyzer waits on a
\* closed pipe and the start method changes nothing.
PipelineInit ==
    /\ gen_inputs = GenInputs
    /\ start_method = "fork"
    /\ PipelineStart

VerifierIdle ==
    /\ vf_pc = "idle"
    /\ vf_blockchain = <<>>
    /\ vf_corrupted = <<>>
    /\ vf_i = 0
    /\ vf_expected = PyStr("")
    /\ vf_is_valid = TRUE
    /\ vf_valid_log = <<>>
    /\ vf_exit = -1

CallIdle == call = [fn |-> "none"]

\* ---- BiometricGenerator.run ----

\* lines 60-66: the next sample; the sleep of line 73 has passed before it
GenSample ==
    /\ gen_pc = "sample"
    /\ \E in \in gen_inputs :
          /\ clock' = IF gen_i = 0 THEN clock ELSE clock + in.delay
          /\ sample' = generate_sample(clock', in.values)
    /\ emitted' = Append(emitted, sample')
    /\ gen_j' = 1
    /\ gen_pc' = "send"
    /\ UNCHANGED <<gen_inputs, start_method, gen_i, gen_error, pipes,
                   pipe_closed, an_pc, an_exit, samples_received, window_data,
                   received, result_queues, v_pc, v_q, blocks_created,
                   pending_results, blockchain, file>>
    /\ UNCHANGED <<verifier_vars, call>>

\* A generator that leaves the last pipe out of the broadcast.
gen_after_send_skip_last(j, i) ==
    IF j < NCh - 1 THEN [pc |-> "send", j |-> j + 1, i |-> i]
    ELSE [pc |-> IF i + 1 < sample_count THEN "sample" ELSE "close",
          j |-> 1, i |-> i + 1]

\* lines 60 and 69: after the send to pipe j of sample i comes the next pipe,
\* then the next sample while i + 1 < sample_count, then the finally block
gen_after_send(j, i) ==
    IF j < NCh THEN [pc |-> "send", j |-> j + 1, i |-> i]
    ELSE [pc |-> IF i + 1 < sample_count THEN "sample" ELSE "close",
          j |-> 1, i |-> i + 1]

\* lines 69-70: pipe_conn.send(sample) on the next pipe
GenSend ==
    /\ gen_pc = "send"
    /\ pipes' = [pipes EXCEPT ![gen_j] = Append(@, sample)]
    /\ gen_pc' = gen_after_send(gen_j, gen_i).pc
    /\ gen_j' = gen_after_send(gen_j, gen_i).j
    /\ gen_i' = gen_after_send(gen_j, gen_i).i
    /\ UNCHANGED <<gen_inputs, start_method, clock, sample, gen_error,
                   emitted, pipe_closed, an_pc, an_exit, samples_received,
                   window_data, received, result_queues, v_pc, v_q,
                   blocks_created, pending_results, blockchain, file>>
    /\ UNCHANGED <<verifier_vars, call>>

\* lines 75-76: a send raised; the handler is outside the for loop
GenSendFail ==
    /\ gen_pc = "send"
    /\ gen_error' = TRUE
    /\ gen_pc' = "close"
    /\ UNCHANGED <<gen_inputs, start_method, clock, gen_i, gen_j, sample,
                   emitted, pipes, pipe_closed, an_pc, an_exit,
                   samples_received, window_data, received, result_queues,
                   v_pc, v_q, blocks_created, pending_results, blockchain,
                   file>>
    /\ UNCHANGED <<verifier_vars, call>>

\* lines 77-81: finally, close every pipe
GenClose ==
    /\ gen_pc = "close"
    /\ pipe_closed' = [c \in CIdx |-> TRUE]
    /\ gen_pc' = "done"
    /\ UNCHANGED <<gen_inputs, start_method, clock, gen_i, gen_j, sample,
                   gen_error, emitted, pipes, an_pc, an_exit,
                   samples_received, window_data, received, result_queues,
                   v_pc, v_q, blocks_created, pending_results, blockchain,
                   file>>
    /\ UNCHANGED <<verifier_vars, call>>

\* ---- BiometricAnalyzer.run ----

\* An analyzer that reports the time of the window's oldest entry.
analyzer_result_window_time(signal_type, w, s) ==
    Only({[tipo |-> signal_type,
           timestamp |-> strftime(w[1].ts),
           media |-> stats[1],
           desv |-> stats[2],
           original_data |-> s] : stats \in {calculate_statistics(w)}})

\* lines 185-191: the result of one sample
analyzer_result(signal_type, w, s) ==
    Only({[tipo |-> signal_type,
           timestamp |-> s.timestamp,
           media |-> stats[1],
           desv |-> stats[2],
           original_data |-> s] : stats \in {calculate_statistics(w)}})

\* lines 172-198: receive one sample, update the window, put the result
AnalyzerRecv(c) ==
    /\ an_pc[c] = "recv"
    /\ pipes[c] # <<>>
    /\ \E s \in {Head(pipes[c])} :
       \E w \in {update_window(Channels[c], window_data[c], s)} :
          /\ window_data' = [window_data EXCEPT ![c] = w]
          /\ result_queues' = [result_queues EXCEPT
                                 ![c] = Append(@, analyzer_result(Channels[c], w, s))]
          /\ received' = [received EXCEPT ![c] = Append(@, s)]
    /\ pipes' = [pipes EXCEPT ![c] = Tail(@)]
    /\ samples_received' = [samples_received EXCEPT ![c] = @ + 1]
    /\ an_pc' = [an_pc EXCEPT
                   ![c] = IF samples_received[c] + 1 < analyzer_count
                          THEN "recv" ELSE "done"]
    /\ an_exit' = [an_exit EXCEPT
                     ![c] = IF samples_received[c] + 1 < analyzer_count
                            THEN @ ELSE "count"]
    /\ UNCHANGED <<gen_inputs, start_method, clock, gen_pc, gen_i, gen_j,
                   sample, gen_error, emitted, pipe_closed, v_pc, v_q,
                   blocks_created, pending_results, blockchain, file>>
    /\ UNCHANGED <<verifier_vars, call>>

\* main.py:393-431: main() creates the pipes before it starts the processes
\* and no process closes the ends it does not use. A forked child inherits
\* every end, the sending end of its own pipe included, so the end the
\* generator closes is not the last one open; a spawned child holds only the
\* connection it was passed.
StartMethods == {"fork", "spawn"}
sending_end_open(c) == ~pipe_closed[c] \/ start_method = "fork"

\* lines 200-201: recv raises EOFError on an empty pipe once every copy of
\* the sending end is closed
AnalyzerEOF(c) ==
    /\ an_pc[c] = "recv"
    /\ pipes[c] = <<>>
    /\ ~sending_end_open(c)
    /\ an_pc' = [an_pc EXCEPT ![c] = "done"]
    /\ an_exit' = [an_exit EXCEPT ![c] = "eof"]
    /\ UNCHANGED <<gen_inputs, start_method, clock, gen_pc, gen_i, gen_j,
                   sample, gen_error, emitted, pipes, pipe_closed,
                   samples_received, window_data, received, result_queues,
                   v_pc, v_q, blocks_created, pending_results, blockchain,
                   file>>
    /\ UNCHANGED <<verifier_vars, call>>

\* lines 203-207: a failure of the analyzer ends it
AnalyzerFail(c) ==
    /\ an_pc[c] = "recv"
    /\ an_pc' = [an_pc EXCEPT ![c] = "done"]
    /\ an_exit' = [an_exit EXCEPT ![c] = "error"]
    /\ UNCHANGED <<gen_inputs, start_method, clock, gen_pc, gen_i, gen_j,
                   sample, gen_error, emitted, pipes, pipe_closed,
                   samples_received, window_data, received, result_queues,
                   v_pc, v_q, blocks_created, pending_results, blockchain,
                   file>>
    /\ UNCHANGED <<verifier_vars, call>>

\* ---- BlockchainVerifier.run (main.py) ----

\* A save that adds the new block to what the file holds instead of writing
\* the whole list.
save_blockchain_appending(chain, old_file, outcome) ==
    IF outcome = "ok"
    THEN [readable |-> TRUE,
          blocks |-> Append(old_file.blocks, json_block(chain[Len(chain)]))]
    ELSE IF outcome = "open_failed" THEN old_file
    ELSE NoFile

\* save_blockchain: the file after the call. open() may fail and leave the
\* file as it was; a write may fail after open() truncated it.
save_blockchain(chain, old_file, outcome) ==
    IF outcome = "ok" THEN json_dump(chain)
    ELSE IF outcome = "open_failed" THEN old_file
    ELSE NoFile

SaveOutcomes == {"ok", "open_failed", "write_failed"}

\* A builder whose loop goes on at expected_blocks.
builder_next_pc_one_more(q, created) ==
    IF q = NCh /\ ~(created <= expected_blocks) THEN "done" ELSE "poll"

\* lines 340-342: the next queue of the round; the while condition is read
\* again after the last queue of a round
builder_next_pc(q, created) ==
    IF q = NCh /\ ~(created < expected_blocks) THEN "done" ELSE "poll"

\* A builder that passes over the queue after the one that timed out.
next_queue_skipping(q) == ((q + 1) % NCh) + 1

\* line 342: for queue in result_queues, inside the while loop: the queue
\* after q in the round, the first one after the last
next_queue(q) == (q % NCh) + 1

\* lines 348-355: fold the result into pending_results
fold_result(pending, result) ==
    Only({DictSet(started, result.timestamp,
                  DictSet(DictGet(started, result.timestamp), result.tipo,
                          [media |-> result.media, desv |-> result.desv,
                           original_data |-> result.original_data])) :
            started \in {IF ~DictHas(pending, result.timestamp)
                         THEN DictSet(pending, result.timestamp, <<>>)
                         ELSE pending}})

\* A builder that closes a tick one result early.
tick_complete_early(tick) == Len(tick) >= 2

\* line 358: the tick has the three results
tick_complete(tick) == Len(tick) = 3

\* A builder that puts the new block in front.
append_block_front(chain, block) == <<block>> \o chain

\* line 361: self.blockchain.append(block)
append_block(chain, block) == Append(chain, block)

\* lines 344-372: a result arrives on the polled queue
BuilderGet(outcome) ==
    /\ v_pc = "poll"
    /\ result_queues[v_q] # <<>>
    /\ \E result \in {Head(result_queues[v_q])} :
       \E folded \in {fold_result(pending_results, result)} :
       \E timestamp \in {result.timestamp}, tick \in {DictGet(folded, result.timestamp)} :
          IF tick_complete(tick)
          THEN \E chain \in {append_block(blockchain,
                                            create_block(blockchain, timestamp, tick))} :
                 /\ blockchain' = chain
                 /\ blocks_created' = blocks_created + 1
                 /\ file' = save_blockchain(chain, file, outcome)
                 /\ pending_results' = DictDel(folded, timestamp)
          ELSE /\ outcome = "ok"
               /\ pending_results' = folded
               /\ UNCHANGED <<blockchain, blocks_created, file>>
    /\ result_queues' = [result_queues EXCEPT ![v_q] = Tail(@)]
    /\ v_pc' = builder_next_pc(v_q, blocks_created')
    /\ v_q' = next_queue(v_q)
    /\ UNCHANGED <<gen_inputs, start_method, clock, gen_pc, gen_i, gen_j,
                   sample, gen_error, emitted, pipes, pipe_closed, an_pc,
                   an_exit, samples_received, window_data, received>>
    /\ UNCHANGED <<verifier_vars, call>>

\* lines 374-376: queue.get(timeout=5) found nothing; go on with the next
\* queue
BuilderTimeout ==
    /\ v_pc = "poll"
    /\ result_queues[v_q] = <<>>
    /\ v_pc' = builder_next_pc(v_q, blocks_created)
    /\ v_q' = next_queue(v_q)
    /\ UNCHANGED <<gen_inputs, start_method, clock, gen_pc, gen_i, gen_j,
                   sample, gen_error, emitted, pipes, pipe_closed, an_pc,
                   an_exit, samples_received, window_data, received,
                   result_queues, blocks_created, pending_results, blockchain,
                   file>>
    /\ UNCHANGED <<verifier_vars, call>>

(***************************************************************************)
(* Specifications of the pipeline.                                         *)
(***************************************************************************)
Init == PipelineInit /\ VerifierIdle /\ CallIdle

\* A run in which no component fails.
Next ==
    \/ GenSample
    \/ GenSend
    \/ GenClose
    \/ \E c \in CIdx : AnalyzerRecv(c)
    \/ BuilderGet("ok")
    \/ BuilderTimeout

Spec == Init /\ [][Next]_vars

\* Every process is an operating-system process of its own and keeps being
\* scheduled.
Fairness ==
    /\ WF_vars(GenSample \/ GenSend \/ GenClose)
    /\ \A c \in CIdx : WF_vars(AnalyzerRecv(c))
    /\ WF_vars(BuilderGet("ok") \/ BuilderTimeout)

\* A run whose samples all draw the same input: the runs are fewer and the
\* control flow is that of Spec, which no value and no delay changes.
SteadyInit ==
    /\ gen_inputs \in {{in} : in \in GenInputs}
    /\ start_method = "fork"
    /\ PipelineStart
    /\ VerifierIdle
    /\ CallIdle

FairSpec == SteadyInit /\ [][Next]_vars /\ Fairness

(***************************************************************************)
(* A run in which a send of the generator may fail.                        *)
(***************************************************************************)
NextSendFail ==
    \/ GenSample
    \/ GenSend
    \/ GenSendFail
    \/ GenClose
    \/ \E c \in CIdx : AnalyzerRecv(c)
    \/ \E c \in CIdx : AnalyzerEOF(c)
    \/ BuilderGet("ok")
    \/ BuilderTimeout

SendFailInit ==
    /\ gen_inputs \in {{in} : in \in GenInputs}
    /\ start_method \in StartMethods
    /\ PipelineStart
    /\ VerifierIdle
    /\ CallIdle

SpecSendFail == SendFailInit /\ [][NextSendFail]_vars

\* A send fails or not as the environment decides: no fairness on the
\* failure. An analyzer blocked in recv() is woken by a sample or by the end
\* of the stream.
FairnessSendFail ==
    /\ WF_vars(GenSample \/ GenSend \/ GenClose)
    /\ \A c \in CIdx : WF_vars(AnalyzerRecv(c) \/ AnalyzerEOF(c))
    /\ WF_vars(BuilderGet("ok") \/ BuilderTimeout)

FairSpecSendFail == SendFailInit /\ [][NextSendFail]_vars /\ FairnessSendFail

(***************************************************************************)
(* A run in which an analyzer may fail.                                    *)
(***************************************************************************)
NextAnalyzerFail ==
    \/ GenSample
    \/ GenSend
    \/ GenClose
    \/ \E c \in CIdx : AnalyzerRecv(c)
    \/ \E c \in CIdx : AnalyzerFail(c)
    \/ BuilderGet("ok")
    \/ BuilderTimeout

SpecAnalyzerFail == SteadyInit /\ [][NextAnalyzerFail]_vars

(***************************************************************************)
(* A single call of calculate_statistics on a window the caller has fed.   *)
(***************************************************************************)
\* Heart rates of the readings fed.
StatValues == {90, 99, 100, 101, 110, 120}

\* The window of the frecuencia analyzer after the readings of the given
\* heart rates, one a second from time 0.
RECURSIVE WindowOf(_, _)
WindowOf(values, n) ==
    IF n = 0 THEN <<>>
    ELSE update_window("frecuencia", WindowOf(values, n - 1),
                       generate_sample(n - 1, [frecuencia |-> values[n],
                                               presion |-> <<120, 80>>,
                                               oxigeno |-> 98]))

StatsInit ==
    /\ gen_inputs = {}
    /\ start_method = "fork"
    /\ PipelineStart
    /\ VerifierIdle
    /\ \E n \in 0..(MaxSamples + 1) : \E values \in [1..n -> StatValues] :
          call = [fn |-> "calculate_statistics", state |-> "called",
                  values |-> values, window_data |-> WindowOf(values, n),
                  ret |-> <<>>]

\* lines 134-157 and 182, 188-189: calculate_statistics() on the window
CallCalculateStatistics ==
    /\ call.fn = "calculate_statistics"
    /\ call.state = "called"
    /\ call' = [call EXCEPT !.state = "returned",
                            !.ret = calculate_statistics(call.window_data)]
    /\ UNCHANGED <<pipeline_vars, verifier_vars>>

NextStats == CallCalculateStatistics

SpecStats == StatsInit /\ [][NextStats]_vars

(***************************************************************************)
(* A run in which a save of the ledger may fail.                           *)
(***************************************************************************)
NextSaveFail ==
    \/ GenSample
    \/ GenSend
    \/ GenClose
    \/ \E c \in CIdx : AnalyzerRecv(c)
    \/ \E outcome \in SaveOutcomes : BuilderGet(outcome)
    \/ BuilderTimeout

SpecSaveFail == SteadyInit /\ [][NextSaveFail]_vars

(***************************************************************************)
(* A single call of create_block on a tick the caller chooses.             *)
(***************************************************************************)
\* Original readings around the thresholds.
AlertReadings ==
    {[timestamp |-> strftime(0), frecuencia |-> f, presion |-> <<p, 70>>,
      oxigeno |-> o] : f \in {60, 199, 200}, p \in {110, 199, 200},
                       o \in {89, 90, 100, 101}}

\* Statistics of the three channels, in hundredths: inside and outside the
\* ranges of the thresholds.
AlertStats ==
    {[frecuencia |-> 8000, presion |-> 12000, oxigeno |-> 9500],
     [frecuencia |-> 25000, presion |-> 21000, oxigeno |-> 8500]}

\* Orders in which the three results of a tick may have arrived.
ArrivalOrders == {<<1, 2, 3>>, <<3, 1, 2>>, <<2, 3, 1>>}

\* The tick of pending_results that lines 348-355 build from three results.
TickOf(reading, stats, order) ==
    [i \in 1..NCh |->
        [k |-> Channels[order[i]],
         v |-> [media |-> stats[Channels[order[i]]], desv |-> 0,
                original_data |-> reading]]]

CallInit ==
    /\ gen_inputs = {}
    /\ start_method = "fork"
    /\ PipelineStart
    /\ VerifierIdle
    /\ \E reading \in AlertReadings, stats \in AlertStats, order \in ArrivalOrders :
          call = [fn |-> "create_block", state |-> "called",
                  timestamp |-> reading.timestamp, reading |-> reading,
                  results |-> TickOf(reading, stats, order), ret |-> None]

\* lines 279-317: create_block(timestamp, results) on an empty ledger
CallCreateBlock ==
    /\ call.fn = "create_block"
    /\ call.state = "called"
    /\ call' = [call EXCEPT !.state = "returned",
                            !.ret = create_block(<<>>, call.timestamp, call.results)]
    /\ UNCHANGED <<pipeline_vars, verifier_vars>>

NextCall == CallCreateBlock

SpecCall == CallInit /\ [][NextCall]_vars

(***************************************************************************)
(* One analyzer fed readings at chosen times.                              *)
(***************************************************************************)
\* Seconds between two readings: the same second, the next one, and the
\* values around half a window and a whole window.
WindowDelays == {0, 1, 15, 16, 30, 31}

\* The times of MaxSamples + 1 readings, the first at 0.
RECURSIVE TimesFrom(_, _)
TimesFrom(delays, n) ==
    IF n = 0 THEN <<0>>
    ELSE Append(TimesFrom(delays, n - 1), TimesFrom(delays, n - 1)[n] + delays[n])

\* The reading generate_sample returns at a time; its values tell the
\* readings apart.
ReadingAt(times, i) ==
    generate_sample(times[i], [frecuencia |-> 60 + i, presion |-> <<110 + i, 70>>,
                               oxigeno |-> 90 + i])

WindowInit ==
    /\ gen_inputs = {}
    /\ start_method = "fork"
    /\ PipelineStart
    /\ VerifierIdle
    /\ \E delays \in [1..MaxSamples -> WindowDelays], c \in CIdx :
          call = [fn |-> "update_window", signal_type |-> Channels[c],
                  times |-> TimesFrom(delays, MaxSamples), fed |-> 0,
                  window_data |-> <<>>]

\* lines 112-132: update_window(sample) with the next reading
CallUpdateWindow ==
    /\ call.fn = "update_window"
    /\ call.fed < Len(call.times)
    /\ call' = [call EXCEPT
                  !.fed = @ + 1,
                  !.window_data = update_window(call.signal_type, @,
                                                ReadingAt(call.times, call.fed + 1))]
    /\ UNCHANGED <<pipeline_vars, verifier_vars>>

NextWindow == CallUpdateWindow

SpecWindow == WindowInit /\ [][NextWindow]_vars

(***************************************************************************)
(* verificar_cadena.py run on a ledger file that may have been edited.     *)
(***************************************************************************)
\* The ledger main.py writes for n samples, one per second.
RECURSIVE BuiltChain(_, _)
BuiltChain(n, in) ==
    IF n = 0 THEN <<>>
    ELSE LET chain == BuiltChain(n - 1, in)
             reading == generate_sample(n - 1, in.values)
             stats == [frecuencia |-> 100 * in.values.frecuencia,
                       presion |-> 100 * in.values.presion[1],
                       oxigeno |-> 100 * in.values.oxigeno]
         IN Append(chain,
                   create_block(chain, reading.timestamp,
                                TickOf(reading, stats, <<1, 2, 3>>)))

\* A JSON object with the member key replaced, or removed.
JSet(obj, key, value) ==
    JObject([i \in 1..Len(obj.members) |->
                IF obj.members[i].k = key THEN [k |-> key, v |-> value]
                ELSE obj.members[i]])
JGet(obj, key) == DictGet(obj.members, key)
JDel(obj, key) == JObject(DictDel(obj.members, key))

\* The block with another frecuencia.media.
WithMedia(jblock, value) ==
    JSet(jblock, "datos",
         JSet(JGet(jblock, "datos"), "frecuencia",
              JSet(JGet(JGet(jblock, "datos"), "frecuencia"), "media", value)))

\* The block with another datos, and with the hash of what it then holds.
WithDatos(jblock, datos) == JSet(jblock, "datos", datos)
Rehashed(jblock) ==
    JSet(jblock, "hash", JString(V_calculate_hash(json_loads(jblock))))

\* The edits of one block of the file.
Edits ==
    {"hash", "prev_hash", "media", "drop_hash", "retyped_media",
     "extra_channel", "drop_channel", "drop_desv"}

Edited(jblock, edit) ==
    IF edit = "hash" THEN JSet(jblock, "hash", JString("0000"))
    ELSE IF edit = "prev_hash" THEN JSet(jblock, "prev_hash", JString("0000"))
    ELSE IF edit = "media" THEN WithMedia(jblock, JNumber(12345))
    ELSE IF edit = "drop_hash" THEN JDel(jblock, "hash")
    ELSE IF edit = "retyped_media"
         THEN \* a text for a number, and the hash of the block so edited
              Rehashed(WithMedia(jblock, JString("alta")))
    ELSE IF edit = "extra_channel"
         THEN \* a fourth channel, and the hash of the block so edited
              Rehashed(WithDatos(jblock,
                  JObject(Append(JGet(jblock, "datos").members,
                                 [k |-> "temperatura",
                                  v |-> json_stats([media |-> 3650, desv |-> 0])]))))
    ELSE IF edit = "drop_channel"
         THEN Rehashed(WithDatos(jblock, JDel(JGet(jblock, "datos"), "oxigeno")))
    ELSE \* drop_desv
         Rehashed(WithDatos(jblock,
             JSet(JGet(jblock, "datos"), "oxigeno",
                  JDel(JGet(JGet(jblock, "datos"), "oxigeno"), "desv"))))

\* The files handed to the verifier: none, the ledger of a run of 0 to
\* MaxBlocks samples, and such a ledger with one block edited.
LedgerFiles ==
    {NoFile}
    \cup {json_dump(BuiltChain(n, in)) : n \in 0..MaxBlocks, in \in GenInputs}
    \cup UNION {{[json_dump(BuiltChain(n, in)) EXCEPT
                     !.blocks[k] = Edited(@, edit)] :
                   in \in GenInputs, k \in 1..n, edit \in Edits} :
                 n \in 1..MaxBlocks}

VerifyInit ==
    /\ gen_inputs = {}
    /\ start_method = "fork"
    /\ ProcessesStart
    /\ file \in LedgerFiles
    /\ vf_pc = "load"
    /\ vf_blockchain = <<>>
    /\ vf_corrupted = <<>>
    /\ vf_i = 0
    /\ vf_expected = PyStr("")
    /\ vf_is_valid = TRUE
    /\ vf_valid_log = <<>>
    /\ vf_exit = -1
    /\ CallIdle

\* load_blockchain and main lines 299-300: exit 1 when the file cannot be read
VfLoad ==
    /\ vf_pc = "load"
    /\ IF file.readable
       THEN /\ vf_blockchain' = json_load(file)
            /\ vf_pc' = "verify"
            /\ UNCHANGED vf_exit
       ELSE /\ vf_exit' = 1
            /\ vf_pc' = "exit"
            /\ UNCHANGED vf_blockchain
    /\ UNCHANGED <<vf_corrupted, vf_i, vf_expected, vf_is_valid, vf_valid_log>>
    /\ UNCHANGED <<pipeline_vars, call>>

\* verify_blockchain lines 127-135: an empty ledger returns False at once
VfVerifyStart ==
    /\ vf_pc = "verify"
    /\ IF vf_blockchain = <<>>
       THEN /\ vf_is_valid' = FALSE
            /\ vf_pc' = "report"
            /\ UNCHANGED <<vf_i, vf_expected>>
       ELSE /\ vf_is_valid' = TRUE
            /\ vf_expected' = PyStr("")
            /\ vf_i' = 0
            /\ vf_pc' = "scan"
    /\ UNCHANGED <<vf_blockchain, vf_corrupted, vf_valid_log, vf_exit>>
    /\ UNCHANGED <<pipeline_vars, call>>

\* verify_blockchain lines 137-152: one block of the loop
VfScan ==
    /\ vf_pc = "scan"
    /\ vf_i < Len(vf_blockchain)
    /\ \E scan \in {scan_block(vf_i, vf_blockchain[vf_i + 1],
                               [is_valid |-> vf_is_valid,
                                expected_prev_hash |-> vf_expected,
                                corrupted |-> vf_corrupted,
                                valid_log |-> vf_valid_log])} :
          /\ vf_is_valid' = scan.is_valid
          /\ vf_expected' = scan.expected_prev_hash
          /\ vf_corrupted' = scan.corrupted
          /\ vf_valid_log' = scan.valid_log
    /\ vf_i' = vf_i + 1
    /\ vf_pc' = IF vf_i + 1 < Len(vf_blockchain) THEN "scan" ELSE "report"
    /\ UNCHANGED <<vf_blockchain, vf_exit>>
    /\ UNCHANGED <<pipeline_vars, call>>

\* generate_statistics lines 181-194: sum() of the media values raises on a
\* media that is not a number, and the in test on a channel that is a number
generate_statistics_raises(chain) ==
    \E i \in 1..Len(chain) :
        /\ DictHas(chain[i].items, "datos")
        /\ \E f \in {"frecuencia", "presion", "oxigeno"} :
              LET datos == DictGet(chain[i].items, "datos")
              IN /\ datos.t = "dict"
                 /\ DictHas(datos.items, f)
                 /\ \/ DictGet(datos.items, f).t \in {"float", "int", "bool"}
                    \/ /\ DictGet(datos.items, f).t = "dict"
                       /\ DictHas(DictGet(datos.items, f).items, "media")
                       /\ DictGet(DictGet(datos.items, f).items, "media").t
                             \notin {"float", "int", "bool"}

\* main lines 306-309: generate_report and print_summary; an exception of
\* generate_statistics is not caught and ends the process with status 1
VfReport ==
    /\ vf_pc = "report"
    /\ IF generate_statistics_raises(vf_blockchain)
       THEN vf_exit' = 1 /\ vf_pc' = "exit"
       ELSE vf_pc' = "exit_code" /\ UNCHANGED vf_exit
    /\ UNCHANGED <<vf_blockchain, vf_corrupted, vf_i, vf_expected, vf_is_valid,
                   vf_valid_log>>
    /\ UNCHANGED <<pipeline_vars, call>>

\* main lines 312-317
exit_status(is_valid) == IF is_valid THEN 0 ELSE 1

VfExit ==
    /\ vf_pc = "exit_code"
    /\ vf_exit' = exit_status(vf_is_valid)
    /\ vf_pc' = "exit"
    /\ UNCHANGED <<vf_blockchain, vf_corrupted, vf_i, vf_expected, vf_is_valid,
                   vf_valid_log>>
    /\ UNCHANGED <<pipeline_vars, call>>

NextVerify == VfLoad \/ VfVerifyStart \/ VfScan \/ VfReport \/ VfExit

SpecVerify == VerifyInit /\ [][NextVerify]_vars

(***************************************************************************)
(* One verifier object on which verify_blockchain is called more than      *)
(* once, and then generate_statistics.                                     *)
(***************************************************************************)
\* The calls of verify_blockchain on the object.
VerifyRuns == 2

\* generate_statistics lines 204-205: len(self.corrupted_blocks) and the
\* integrity percentage, round(_, 2) in hundredths
integrity_percentage(total_blocks, corrupted) ==
    IF total_blocks > 0
    THEN IF corrupted <= total_blocks
         THEN round2(100 * (total_blocks - corrupted), total_blocks)
         ELSE 0 - round2(100 * (corrupted - total_blocks), total_blocks)
    ELSE 0

\* generate_statistics: {} on an empty ledger, else the two figures that
\* depend on the verification
generate_statistics(chain, corrupted_blocks) ==
    IF chain = <<>> THEN [empty |-> TRUE]
    ELSE [empty |-> FALSE,
          total_blocks |-> Len(chain),
          corrupted_blocks |-> Len(corrupted_blocks),
          integrity_percentage |-> integrity_percentage(Len(chain),
                                                        Len(corrupted_blocks))]

VerifyTwiceInit ==
    /\ gen_inputs = {}
    /\ start_method = "fork"
    /\ ProcessesStart
    /\ file \in LedgerFiles
    /\ vf_pc = "load"
    /\ vf_blockchain = <<>>
    /\ vf_corrupted = <<>>
    /\ vf_i = 0
    /\ vf_expected = PyStr("")
    /\ vf_is_valid = TRUE
    /\ vf_valid_log = <<>>
    /\ vf_exit = -1
    /\ call = [fn |-> "verify_blockchain", returned |-> <<>>, stats |-> None]

\* verify_blockchain returns to a caller that keeps the verdict and what
\* self.corrupted_blocks holds, and calls it again on the same object
VfReturn ==
    /\ vf_pc = "report"
    /\ call.fn = "verify_blockchain"
    /\ Len(call.returned) < VerifyRuns
    /\ call' = [call EXCEPT !.returned =
                                Append(@, [is_valid |-> vf_is_valid,
                                           corrupted_blocks |-> vf_corrupted])]
    /\ vf_pc' = IF Len(call.returned) + 1 < VerifyRuns THEN "verify"
                ELSE "statistics"
    /\ vf_valid_log' = <<>>
    /\ UNCHANGED <<vf_blockchain, vf_corrupted, vf_i, vf_expected, vf_is_valid,
                   vf_exit>>
    /\ UNCHANGED pipeline_vars

\* generate_statistics() after the calls; a media that is not a number
\* raises
VfStatistics ==
    /\ vf_pc = "statistics"
    /\ call' = [call EXCEPT !.stats =
                                IF generate_statistics_raises(vf_blockchain)
                                THEN [raised |-> "TypeError"]
                                ELSE generate_statistics(vf_blockchain, vf_corrupted)]
    /\ vf_pc' = "returned"
    /\ UNCHANGED <<vf_blockchain, vf_corrupted, vf_i, vf_expected, vf_is_valid,
                   vf_valid_log, vf_exit>>
    /\ UNCHANGED pipeline_vars

NextVerifyTwice == VfLoad \/ VfVerifyStart \/ VfScan \/ VfReturn \/ VfStatistics

SpecVerifyTwice == VerifyTwiceInit /\ [][NextVerifyTwice]_vars

(***************************************************************************)
(* Properties.                                                             *)
(***************************************************************************)
IsPrefix(s, t) == Len(s) <= Len(t) /\ \A i \in 1..Len(s) : s[i] = t[i]

\* C1: in every reachable state the ledger is chain-linked: the first
\* block's prev_hash is the empty string and every later block's prev_hash
\* is the hash of the block before it.
C1_ChainLinked ==
    /\ blockchain # <<>> => blockchain[1].prev_hash = ""
    /\ \A i \in 2..Len(blockchain) : blockchain[i].prev_hash = blockchain[i - 1].hash

C1_Witness ==
    /\ Len(blockchain) >= 2
    /\ blockchain[2].prev_hash = blockchain[1].hash
    /\ blockchain[2].prev_hash # ""

\* C2: every block's stored hash is sha256(prev_hash + str(datos) +
\* timestamp) of its own fields, and the verifier's calculate_hash of the
\* block as reloaded from blockchain.json returns that stored hash.
C2_HashRoundTrip ==
    /\ \A i \in 1..Len(blockchain) :
          blockchain[i].hash =
              sha256(blockchain[i].prev_hash \o str_datos(blockchain[i].datos)
                     \o blockchain[i].timestamp)
    /\ file.readable =>
          LET loaded == json_load(file)
          IN /\ Len(loaded) <= Len(blockchain)
             /\ \A i \in 1..Len(loaded) :
                   /\ DictGet(loaded[i].items, "hash") = PyStr(blockchain[i].hash)
                   /\ V_calculate_hash(loaded[i]) = blockchain[i].hash

C2_Witness ==
    /\ file.readable
    /\ Len(file.blocks) >= 2
    /\ V_calculate_hash(json_load(file)[2]) = blockchain[2].hash

NoAlertValues(s) ==
    /\ s.frecuencia < 200
    /\ 90 <= s.oxigeno /\ s.oxigeno <= 100
    /\ s.presion[1] < 200

PipelineComplete ==
    /\ v_pc = "done"
    /\ Len(emitted) = sample_count
    /\ Len(blockchain) = expected_blocks
    /\ \A i \in 1..Len(blockchain) :
          /\ blockchain[i].timestamp = emitted[i].timestamp
          /\ blockchain[i].alerta = FALSE

\* C3: with expected_count readings in the non-alert ranges and no failure,
\* under fair scheduling every interleaving ends with exactly
\* expected_count blocks, one per reading timestamp in order, none with an
\* alert.
C3_PipelineCompletes ==
    /\ [](\A i \in 1..Len(emitted) : NoAlertValues(emitted[i]))
    /\ <>[]PipelineComplete

C3_Witness ==
    /\ PipelineComplete
    /\ \A i \in 1..Len(emitted) : NoAlertValues(emitted[i])
    /\ \A c \in CIdx : an_pc[c] = "done"

\* C4: a block's alert flag is true exactly when the original reading of its
\* tick has heart rate >= 200, or oxygen < 90, or oxygen > 100, or systolic
\* pressure >= 200, whatever the rolling mean and standard deviation are.
C4_AlertFromRawReading ==
    (call.fn = "create_block" /\ call.state = "returned") =>
        (call.ret.alerta <=>
            (\/ call.reading.frecuencia >= 200
             \/ call.reading.oxigeno < 90
             \/ call.reading.oxigeno > 100
             \/ call.reading.presion[1] >= 200))

C4_Witness ==
    /\ call.fn = "create_block" /\ call.state = "returned"
    /\ call.ret.alerta = FALSE
    /\ call.reading.frecuencia = 199
    /\ call.reading.oxigeno = 100
    /\ DictGet(call.ret.datos, "frecuencia").media = 25000
    /\ DictGet(call.ret.datos, "oxigeno").media = 8500

\* The window of an analyzer after its n first samples.
RECURSIVE ReplayWindow(_, _, _)
ReplayWindow(signal_type, samples, n) ==
    IF n = 0 THEN <<>>
    ELSE update_window(signal_type, ReplayWindow(signal_type, samples, n - 1),
                       samples[n])

\* C5: every block's datos has exactly the keys frecuencia, presion and
\* oxigeno, each with the media and desv that the analyzer of that channel
\* computed for the block's timestamp: no block is built from fewer than
\* three results.
C5_ThreeChannelsPerBlock ==
    \A i \in 1..Len(blockchain) :
        /\ Len(blockchain[i].datos) = NCh
        /\ \A c \in CIdx :
              /\ Cardinality({j \in 1..Len(blockchain[i].datos) :
                                 blockchain[i].datos[j].k = Channels[c]}) = 1
              /\ DOMAIN DictGet(blockchain[i].datos, Channels[c]) = {"media", "desv"}
              /\ Cardinality({n \in 1..Len(received[c]) :
                                 received[c][n].timestamp = blockchain[i].timestamp}) = 1
              /\ \A n \in 1..Len(received[c]) :
                    received[c][n].timestamp = blockchain[i].timestamp =>
                        LET stats == calculate_statistics(
                                         ReplayWindow(Channels[c], received[c], n))
                        IN DictGet(blockchain[i].datos, Channels[c]) =
                               [media |-> stats[1], desv |-> stats[2]]

C5_Witness ==
    /\ Len(blockchain) >= 2
    /\ Len(blockchain[2].datos) = NCh
    /\ DictGet(blockchain[2].datos, "frecuencia").desv > 0

\* What the generator has sent to channel c so far.
SentTo(c) == received[c] \o pipes[c]

\* C6: the generator emits exactly sample_count readings, with strictly
\* increasing timestamps, and every analyzer gets every reading, in the
\* order of emission.
C6_BroadcastInOrder ==
    /\ Len(emitted) <= sample_count
    /\ \A i \in 2..Len(emitted) :
          strptime(emitted[i - 1].timestamp) < strptime(emitted[i].timestamp)
    /\ \A c \in CIdx : IsPrefix(SentTo(c), emitted)
    /\ gen_pc \in {"close", "done"} =>
          /\ Len(emitted) = sample_count
          /\ \A c \in CIdx : SentTo(c) = emitted
    /\ \A c \in CIdx : an_pc[c] = "done" => received[c] = emitted

C6_Witness ==
    /\ gen_pc = "done"
    /\ Len(emitted) = sample_count
    /\ sample_count >= 2
    /\ \A c \in CIdx : an_pc[c] = "done" /\ received[c] = emitted

\* C7: after a send to one analyzer has failed, the generator goes on and
\* emits the remaining readings to every other analyzer, until sample_count
\* readings have been emitted.
C7_SendFailureDropsOneSink ==
    (gen_error /\ gen_pc = "done") =>
        /\ Len(emitted) = sample_count
        /\ \A c \in CIdx \ {gen_j} : SentTo(c) = emitted

AnalyzersTerminated ==
    \A c \in CIdx :
        /\ an_pc[c] = "done"
        /\ \/ an_exit[c] = "count" /\ samples_received[c] = analyzer_count
           \/ an_exit[c] = "eof" /\ samples_received[c] < analyzer_count

\* C8: once the generator has emitted its last reading it closes every pipe,
\* and every analyzer ends: after analyzer_count readings, or gracefully at
\* the end of the stream with fewer, never by the error branch.
C8_AnalyzersTerminate ==
    /\ <>[](gen_pc = "done" /\ \A c \in CIdx : pipe_closed[c])
    /\ [](\A c \in CIdx : an_exit[c] # "error")
    /\ <>[]AnalyzersTerminated

\* The ledger scanned is a valid chain in which only the hash of block k
\* (counted from 0, not the last block) was altered.
HashAlteredAt(k) ==
    /\ k + 1 < Len(vf_blockchain)
    /\ \E n \in 1..MaxBlocks, in \in GenInputs :
          file = [json_dump(BuiltChain(n, in)) EXCEPT
                     !.blocks[k + 1] = Edited(@, "hash")]

ReportedIndexes == {vf_corrupted[i].index : i \in 1..Len(vf_corrupted)}

\* C9: for a valid chain in which only the hash of block k, not the last
\* block, was altered, the verifier reports block k for its hash and block
\* k + 1 for its link, and no block after k + 1.
C9_OneCorruptedBlockAndLink ==
    \A k \in 0..(MaxBlocks - 1) :
        (vf_pc = "exit" /\ HashAlteredAt(k)) =>
            /\ ReportedIndexes = {k, k + 1}
            /\ \A i \in 1..Len(vf_corrupted) :
                  /\ vf_corrupted[i].index = k => vf_corrupted[i].errors = <<"hash">>
                  /\ vf_corrupted[i].index = k + 1 =>
                        vf_corrupted[i].errors = <<"prev_hash">>

\* C10: for every ledger that loads, empty or not, the verdict is the
\* conjunction of the validity of its blocks, and the exit status is 0
\* exactly when the verdict is true, non-zero only when a block is corrupted
\* or the file cannot be read.
C10_VerdictIsConjunction ==
    vf_pc = "exit" =>
        /\ file.readable =>
              /\ Len(vf_valid_log) = Len(vf_blockchain)
              /\ vf_is_valid <=> \A i \in 1..Len(vf_valid_log) : vf_valid_log[i]
              /\ vf_exit = 0 <=> vf_is_valid
        /\ vf_exit # 0 => (vf_corrupted # <<>> \/ ~file.readable)

\* C11: every non-empty ledger the builder has written to blockchain.json,
\* whatever the order in which the results of the channels arrived, is
\* accepted by the verifier: verify_blockchain returns True and records no
\* corrupted block.
C11_VerifierAcceptsBuiltLedger ==
    (file.readable /\ file.blocks # <<>>) =>
        /\ verify_blockchain(json_load(file)).is_valid
        /\ verify_blockchain(json_load(file)).corrupted = <<>>
        /\ Len(verify_blockchain(json_load(file)).valid_log) = Len(blockchain)

C11_Witness ==
    /\ file.readable
    /\ Len(file.blocks) = expected_blocks
    /\ expected_blocks >= 2
    /\ verify_blockchain(json_load(file)).is_valid
    /\ \E i \in 1..Len(blockchain) : DictKeys(blockchain[i].datos) # Channels

\* The entries of the readings 1..n of the call, in arrival order.
FedEntries(n) ==
    [i \in 1..n |->
        [ts |-> call.times[i],
         value |-> IF call.signal_type = "frecuencia" THEN 60 + i
                   ELSE IF call.signal_type = "presion" THEN 110 + i
                   ELSE 90 + i]]

\* C12: for a channel fed readings with non-decreasing timestamps, after
\* update_window has processed the reading of time T the window holds
\* exactly the received entries with T - ts <= 30, in arrival order; so the
\* newest entry is at most 30 seconds after the oldest.
C12_WindowHoldsLast30Seconds ==
    (call.fn = "update_window" /\ call.fed >= 1) =>
        /\ call.window_data =
              SelectSeq(FedEntries(call.fed),
                        LAMBDA e : call.times[call.fed] - e.ts <= 30)
        /\ call.window_data # <<>>
        /\ call.window_data[Len(call.window_data)].ts - call.window_data[1].ts <= 30

C12_Witness ==
    /\ call.fn = "update_window"
    /\ call.fed = Len(call.times)
    /\ Len(call.window_data) >= 2
    /\ Len(call.window_data) < call.fed
    /\ call.times[call.fed] - call.window_data[1].ts = 30

\* The datos of a block with its keys in the order of Channels, as the run
\* in which the results arrive in that order builds it.
InChannelOrder(datos) ==
    [i \in 1..NCh |-> [k |-> Channels[i], v |-> DictGet(datos, Channels[i])]]

\* C13: the datos that enters the hash has a fixed key order: whatever the
\* order in which the results of the three channels reach the builder, the
\* block of a tick has the key order, and so the hash, of the run in which
\* they arrive in the order of the channels.
C13_FixedKeyOrder ==
    \A i \in 1..Len(blockchain) :
        /\ DictKeys(blockchain[i].datos) = Channels
        /\ blockchain[i].hash =
              sha256(blockchain[i].prev_hash
                     \o str_datos(InChannelOrder(blockchain[i].datos))
                     \o blockchain[i].timestamp)

\* C14: the ledger is append-only: across every step the ledger before is a
\* prefix of the ledger after, in memory and in blockchain.json, so a block
\* once appended is never modified, reordered or removed; and only a step
\* of the builder changes it.
C14_AppendOnly ==
    [][/\ IsPrefix(blockchain, blockchain')
       /\ (file.readable /\ file'.readable) => IsPrefix(file.blocks, file'.blocks)
       /\ (blockchain' # blockchain \/ file' # file) =>
             /\ v_pc = "poll"
             /\ v_q' # v_q
             /\ Len(blockchain') = Len(blockchain) + 1
             /\ <<emitted, pipes, received, window_data>>' =
                   <<emitted, pipes, received, window_data>>]_vars

C14_Witness ==
    /\ Len(blockchain) >= 2
    /\ file.readable
    /\ Len(file.blocks) = Len(blockchain)
    /\ v_pc = "done"

\* C15: after every step of the builder each tick held in pending_results
\* has at least one and fewer than three results, of different channels: a
\* tick is removed in the step in which it gets its third result.
C15_PendingTicksPartial ==
    \A i \in 1..Len(pending_results) :
        /\ 1 <= Len(pending_results[i].v)
        /\ Len(pending_results[i].v) < 3
        /\ \A j, k \in 1..Len(pending_results[i].v) :
              pending_results[i].v[j].k = pending_results[i].v[k].k => j = k
        /\ \A j \in 1..Len(pending_results) :
              pending_results[i].k = pending_results[j].k => i = j

C15_Witness ==
    /\ Len(blockchain) >= 1
    /\ \E i \in 1..Len(pending_results) : Len(pending_results[i].v) = 2
    /\ \A i \in 1..Len(blockchain) :
          ~DictHas(pending_results, blockchain[i].timestamp)

\* C16: in a run where no component fails the builder eventually ends, and
\* when it has ended exactly expected_blocks blocks have been created, never
\* more, and no tick is pending.
C16_BuilderTerminates ==
    /\ <>[](v_pc = "done")
    /\ [](blocks_created <= expected_blocks /\ Len(blockchain) = blocks_created)
    /\ [](v_pc = "done" =>
             /\ blocks_created = expected_blocks
             /\ pending_results = <<>>)

C16_Witness ==
    /\ v_pc = "done"
    /\ blocks_created = expected_blocks
    /\ pending_results = <<>>
    /\ \A c \in CIdx : result_queues[c] = <<>>

\* Analyzer c has stopped before the reading of index n (from 1).
StoppedBefore(c, n) ==
    /\ an_pc[c] = "done"
    /\ samples_received[c] < n
    /\ n <= sample_count

\* The timestamp of the reading of index n is known to the builder or to
\* the generator.
TickPending(n) ==
    /\ n <= Len(emitted)
    /\ DictHas(pending_results, emitted[n].timestamp)

\* C17: if an analyzer stops before it emits its result for a tick, the tick
\* is never made a block and never evicted: no block with fewer than three
\* channels is appended, the tick once pending stays in pending_results, and
\* the builder never reaches expected_blocks.
C17_StalledTickStaysPending ==
    /\ [](\A c \in CIdx, n \in 1..sample_count :
             StoppedBefore(c, n) =>
                /\ \A i \in 1..Len(blockchain) :
                      /\ Len(blockchain[i].datos) = NCh
                      /\ n <= Len(emitted) =>
                            blockchain[i].timestamp # emitted[n].timestamp
                /\ blocks_created < expected_blocks
                /\ v_pc # "done")
    /\ [][\A c \in CIdx, n \in 1..sample_count :
             (StoppedBefore(c, n) /\ TickPending(n)) =>
                /\ TickPending(n)'
                /\ IsPrefix(DictGet(pending_results, emitted[n].timestamp),
                            DictGet(pending_results', emitted[n].timestamp))]_vars

C17_Witness ==
    /\ \E c \in CIdx :
          /\ an_exit[c] = "error"
          /\ StoppedBefore(c, sample_count)
          /\ TickPending(sample_count)
          /\ Len(DictGet(pending_results, emitted[sample_count].timestamp)) = NCh - 1
    /\ \A c \in CIdx : result_queues[c] = <<>>
    /\ Len(blockchain) = sample_count - 1

\* The result r is the one of channel c for the reading s.
ResultOf(r, c, s) ==
    /\ r.tipo = Channels[c]
    /\ r.timestamp = s.timestamp
    /\ r.original_data = s

\* C18: an analyzer emits exactly one result for each reading it receives,
\* in the order received, with the reading's timestamp, the analyzer's
\* channel and the unmodified reading; so the results of a channel reach the
\* builder in strictly increasing timestamp order.
C18_OneResultPerReading ==
    /\ [][\A c \in CIdx :
             IF received'[c] # received[c]
             THEN /\ received'[c] = Append(received[c], emitted[Len(received[c]) + 1])
                  /\ Len(result_queues'[c]) = Len(result_queues[c]) + 1
                  /\ IsPrefix(result_queues[c], result_queues'[c])
                  /\ ResultOf(result_queues'[c][Len(result_queues'[c])], c,
                              emitted[Len(received[c]) + 1])
             ELSE \/ result_queues'[c] = result_queues[c]
                  \/ /\ result_queues[c] # <<>>
                     /\ result_queues'[c] = Tail(result_queues[c])]_vars
    /\ [](\A c \in CIdx :
             /\ Len(result_queues[c]) <= Len(received[c])
             /\ \A k \in 1..Len(result_queues[c]) :
                   ResultOf(result_queues[c][k], c,
                            received[c][Len(received[c]) - Len(result_queues[c]) + k])
             /\ \A k \in 2..Len(result_queues[c]) :
                   strptime(result_queues[c][k - 1].timestamp)
                       < strptime(result_queues[c][k].timestamp))

C18_Witness ==
    \E c \in CIdx :
        /\ Len(result_queues[c]) >= 2
        /\ Len(result_queues[c]) = Len(received[c])
        /\ result_queues[c][1].original_data = emitted[1]
        /\ result_queues[c][2].original_data = emitted[2]

\* C19: when a block with all its required fields fails, the scan goes on
\* with the next block, and the next block's prev_hash is compared with the
\* stored hash of the failing block, not with the hash of the last valid
\* block.
C19_ExpectedFollowsStoredHash ==
    (vf_pc \in {"scan", "report"} /\ vf_i >= 1
       /\ missing_field_errors(vf_blockchain[vf_i]) = <<>>) =>
        /\ Len(vf_valid_log) = vf_i
        /\ vf_pc = "scan" <=> vf_i < Len(vf_blockchain)
        /\ vf_pc = "scan" =>
              vf_expected = DictGet(vf_blockchain[vf_i].items, "hash")

\* The datos of the block has exactly the three channels, each a dict with
\* a numeric media and a numeric desv.
IsNumber(v) == v.t \in {"float", "int"}
DatosWellFormed(block) ==
    LET datos == DictGet(block.items, "datos")
    IN /\ datos.t = "dict"
       /\ Len(datos.items) = NCh
       /\ \A c \in CIdx :
             /\ DictHas(datos.items, Channels[c])
             /\ DictGet(datos.items, Channels[c]).t = "dict"
             /\ \A f \in {"media", "desv"} :
                   /\ DictHas(DictGet(datos.items, Channels[c]).items, f)
                   /\ IsNumber(DictGet(DictGet(datos.items, Channels[c]).items, f))

\* C20: verify_block reports a block as invalid whenever its datos does not
\* have exactly the three channels (one missing or one extra) or the media
\* or the desv of a channel is missing or not a number.
C20_DatosStructureChecked ==
    \A i \in 1..Len(vf_valid_log) :
        (DictHas(vf_blockchain[i].items, "datos")
           /\ ~DatosWellFormed(vf_blockchain[i])) => ~vf_valid_log[i]

\* The results of channel c the builder has taken from its queue.
Consumed(c) == Len(received[c]) - Len(result_queues[c])

\* The ticks of pending_results that hold a result of channel c.
PendingOf(c) ==
    {i \in 1..Len(pending_results) : DictHas(pending_results[i].v, Channels[c])}

\* The reading of index n has its result of channel c in exactly one place:
\* the queue, pending_results or a block.
HeldOnce(c, n) ==
    LET ts == received[c][n].timestamp
        inQueue == n > Consumed(c)
        inPending == /\ DictHas(pending_results, ts)
                     /\ DictHas(DictGet(pending_results, ts), Channels[c])
        inBlock == \E i \in 1..Len(blockchain) : blockchain[i].timestamp = ts
    IN /\ inQueue \/ inPending \/ inBlock
       /\ ~(inQueue /\ inPending) /\ ~(inQueue /\ inBlock) /\ ~(inPending /\ inBlock)

\* C21: a poll that times out is not fatal: the builder goes on with the
\* next queue of the round, so the queue is polled again one round later,
\* and the step changes neither the ledger, nor the file, nor
\* pending_results, nor blocks_created, nor any queue; the builder only ends
\* at expected_blocks. No result is lost or folded twice: every result an
\* analyzer has put is in its queue, in pending_results or in a block, in
\* exactly one of them.
C21_TimeoutNotFatal ==
    /\ [][(v_pc = "poll" /\ result_queues[v_q] = <<>>
             /\ <<v_pc, v_q>>' # <<v_pc, v_q>>) =>
               /\ v_q' = (IF v_q = NCh THEN 1 ELSE v_q + 1)
               /\ v_pc' = "done" => (v_q = NCh /\ blocks_created = expected_blocks)
               /\ <<blockchain, file, pending_results, blocks_created,
                     result_queues>>' =
                     <<blockchain, file, pending_results, blocks_created,
                       result_queues>>]_vars
    /\ [](\A c \in CIdx :
             /\ Consumed(c) = Len(blockchain) + Cardinality(PendingOf(c))
             /\ \A n \in 1..Len(received[c]) : HeldOnce(c, n))

\* The first block was made of results folded after the frecuencia queue,
\* the first of the round, had timed out.
C21_Witness ==
    /\ blockchain # <<>>
    /\ blockchain[1].datos[1].k # Channels[1]
    /\ Len(blockchain[1].datos) = NCh
    /\ blockchain[1].timestamp = emitted[1].timestamp

\* The step appends one block, counts it and goes on as after any result.
AppendStep ==
    /\ Len(blockchain') = Len(blockchain) + 1
    /\ IsPrefix(blockchain, blockchain')
    /\ blocks_created' = blocks_created + 1
    /\ v_pc' = (IF v_q = NCh /\ blocks_created' >= expected_blocks
                THEN "done" ELSE "poll")
    /\ result_queues' = [result_queues EXCEPT ![v_q] = Tail(@)]

\* The file after the step is the whole ledger after the step.
SavedWhole == file' = json_dump(blockchain')

\* The file after the step is the file before it, and the blocks it holds
\* are the first blocks of the ledger.
LeftStale ==
    /\ file' = file
    /\ IsPrefix(json_load(file'), json_load(json_dump(blockchain')))

\* C22: every step that appends a block keeps the block in memory, counts
\* it and lets the builder go on; after it the file is the whole in-memory
\* ledger, or, when the write failed, the file as it was before: a stale
\* prefix of the in-memory ledger.
C22_SavedWholeOrStalePrefix ==
    [][blockchain' # blockchain => (AppendStep /\ (SavedWhole \/ LeftStale))]_vars

\* C22 as the code has it: a write that fails after open() has truncated
\* the file leaves no ledger a reader can load, the blocks saved before
\* included.
C22_SavedWholeStaleOrPartial ==
    [][blockchain' # blockchain =>
          (AppendStep /\ (SavedWhole \/ LeftStale \/ file' = NoFile))]_vars

\* Every block was appended and counted and the builder has ended, and the
\* file holds no ledger.
C22_Witness ==
    /\ v_pc = "done"
    /\ blocks_created = expected_blocks
    /\ Len(blockchain) = expected_blocks
    /\ ~file.readable

\* The sum of the values fed and the sum of their squares.
FedSum == SumSeq(call.values, 1)
FedSquares == SumSeq([i \in 1..Len(call.values) |-> call.values[i] * call.values[i]], 1)

\* d hundredths is within half a hundredth of the square root of num / den.
IsRoundedSqrt(d, num, den) ==
    /\ d >= 0
    /\ d > 0 => (2 * d - 1) * (2 * d - 1) * den <= 40000 * num
    /\ 40000 * num <= (2 * d + 1) * (2 * d + 1) * den

\* C23: calculate_statistics returns (0, 0) on an empty window and a
\* deviation of 0 on a window of one value; on a window of n > 1 equal
\* values v it returns the mean v and the deviation 0 (100, 100, 100 at the
\* times 0, 1, 2 give 100.0 and 0.0); and for n > 1 the deviation is the
\* square root of the sum of the squared differences from the mean divided
\* by n - 1.
C23_StatisticsOfWindow ==
    (call.fn = "calculate_statistics" /\ call.state = "returned") =>
        LET n == Len(call.values)
            media == call.ret[1]
            desv == call.ret[2]
        IN /\ n = 0 => call.ret = <<0, 0>>
           /\ n = 1 => (desv = 0 /\ media = 100 * call.values[1])
           /\ (n > 1 /\ \A i \in 1..n : call.values[i] = call.values[1]) =>
                 call.ret = <<100 * call.values[1], 0>>
           /\ n > 1 =>
                 \* sum((x - mean) ** 2) = (n * squares - sum ** 2) / n
                 IsRoundedSqrt(desv, n * FedSquares - FedSum * FedSum, n * (n - 1))

\* The three readings of 100 at the times 0, 1 and 2.
C23_Witness ==
    /\ call.fn = "calculate_statistics"
    /\ call.state = "returned"
    /\ call.values = <<100, 100, 100>>
    /\ [i \in 1..3 |-> call.window_data[i].ts] = <<0, 1, 2>>
    /\ call.ret = <<10000, 0>>

\* C24: however the results of the three channels interleave, a channel
\* running ticks ahead of another and polls timing out included, the blocks
\* of the ledger have strictly increasing timestamps, so no two blocks have
\* the same timestamp, and block i is the block of the i-th reading the
\* generator emitted.
C24_BlocksInEmissionOrder ==
    /\ Len(blockchain) <= Len(emitted)
    /\ \A i \in 1..Len(blockchain) :
          /\ blockchain[i].timestamp = emitted[i].timestamp
          /\ \A j \in 1..Len(blockchain) :
                i < j => strptime(blockchain[i].timestamp)
                            < strptime(blockchain[j].timestamp)

\* Every block is in the ledger after polls that timed out: the first was
\* closed by another channel than the last of the round, and the last was
\* begun by another channel than the first of the round and closed by
\* another channel than the first block.
C24_Witness ==
    /\ Len(blockchain) = MaxSamples
    /\ blockchain[1].datos[NCh].k # Channels[NCh]
    /\ blockchain[MaxSamples].datos[1].k # Channels[1]
    /\ blockchain[MaxSamples].datos[1].k # blockchain[1].datos[NCh].k
    /\ blockchain[MaxSamples].datos[NCh].k # blockchain[1].datos[NCh].k

\* The entries of a list of corrupted blocks, as a set.
EntriesOf(corrupted_blocks) ==
    {corrupted_blocks[i] : i \in 1..Len(corrupted_blocks)}

\* C25: verify_blockchain called twice on the same loaded ledger returns
\* the same verdict and leaves the same set of corrupted-block entries, so
\* the object never holds more corrupted blocks than the ledger has blocks
\* and the integrity percentage of generate_statistics is within 0..100.
C25_VerifyIdempotent ==
    (call.fn = "verify_blockchain" /\ Len(call.returned) = VerifyRuns) =>
        /\ call.returned[2].is_valid = call.returned[1].is_valid
        /\ EntriesOf(call.returned[2].corrupted_blocks)
              = EntriesOf(call.returned[1].corrupted_blocks)
        /\ Len(call.returned[2].corrupted_blocks) <= Len(vf_blockchain)
        /\ (vf_pc = "returned" /\ "integrity_percentage" \in DOMAIN call.stats) =>
              /\ call.stats.corrupted_blocks <= call.stats.total_blocks
              /\ 0 <= call.stats.integrity_percentage
              /\ call.stats.integrity_percentage <= 10000

====
